---- MODULE Spec2Model ----
(***************************************************************************)
(* A model of the WWT Constellations API client:                           *)
(*   wwt_api_client/constellations/__init__.py  (ClientConfig, CxClient)   *)
(*   wwt_api_client/constellations/data.py      (data classes)             *)
(*   wwt_api_client/constellations/handles.py   (HandleClient)             *)
(*                                                                         *)
(* Text is modelled as a sequence of tokens; the path separator "/" is     *)
(* always a token of its own, so that endswith("/") and the substring      *)
(* tests of the code are decided on the tokens.  Python values that may be *)
(* None, and JSON values, are tagged records.                              *)
(***************************************************************************)
EXTENDS Integers, Sequences, FiniteSets, TLC

VARIABLES
    environ,    \* os.environ: a function from the names that are set to text
    cfg_result, \* outcome of the last ClientConfig constructor call
    strip_in,   \* the dictionary handed to _strip_nulls_in_place
    strip_out,  \* the outcome of the last strip step
    config,     \* CxClient._config
    handle,     \* the handle given to CxClient.handle_client
    url_base,   \* HandleClient._url_base
    wire,       \* the requests the last operation handed to the token client
    decoded,    \* the payloads the last operation handed to schema().load
    n_sent,     \* HTTP requests issued since construction
    n_forced,   \* requests issued with new_token set since construction
    call,       \* the last operation called, with its arguments
    result,     \* the outcome of the last operation
    rt          \* a model value taken through to_dict, strip and schema().load

cfg_vars == <<environ, cfg_result>>
strip_vars == <<strip_in, strip_out>>
rt_vars == <<rt>>
cx_vars == <<config, handle, url_base, wire, decoded, n_sent, n_forced, call,
             result>>
vars == <<environ, cfg_result, strip_in, strip_out, config, handle, url_base,
          wire, decoded, n_sent, n_forced, call, result, rt>>

----------------------------------------------------------------------------
(* Values *)

None == [t |-> "null"]
Str(s) == [t |-> "str", s |-> s]
Num(n) == [t |-> "num", n |-> n]
Bool(b) == [t |-> "bool", b |-> b]
Dict(d) == [t |-> "dict", d |-> d]
List(l) == [t |-> "list", l |-> l]
EmptyDict == Dict([k \in {} |-> None])

isinstance_dict(v) == v.t = "dict"

\* Outcomes of a call
NoCall == [kind |-> "none"]
Return(v) == [kind |-> "return", value |-> v]
Raise(exc, msg) == [kind |-> "raise", exc |-> exc, msg |-> msg]

\* str.endswith(suffix)
endswith(s, suffix) ==
    /\ Len(s) >= Len(suffix)
    /\ SubSeq(s, Len(s) - Len(suffix) + 1, Len(s)) = suffix

\* the Python operator `needle in hay` on text
contains(hay, needle) ==
    \E i \in 0..(Len(hay) - Len(needle)) :
        SubSeq(hay, i + 1, i + Len(needle)) = needle

\* os.environ.get(key, default)
environ_get(env, key, default) ==
    IF key \in DOMAIN env THEN Str(env[key]) ELSE default

----------------------------------------------------------------------------
(* ClientConfig *)

SLASH == <<"/">>
LOCALHOST == <<"localhost">>
WWT_DEV == <<"wwtelescope.dev">>
REALM == <<"realms", "/", "constellations">>
CLI_TOOL == <<"cli-tool">>
LOCAL_ID_BASE == <<"http:", "/", "/", "localhost", ":8080", "/">>
DEV_ID_BASE == <<"https:", "/", "/", "wwtelescope.dev", "/", "auth", "/">>
DEV_API_URL == <<"https:", "/", "/", "api.", "wwtelescope.dev", "/">>

ClientConfig(id_provider_url, client_id, api_url) ==
    [id_provider_url |-> id_provider_url, client_id |-> client_id,
     api_url |-> api_url]

\* the heuristic default of the identity base, from the API URL
default_id_base_dev_first(api_url) ==
    IF contains(api_url, WWT_DEV) THEN Str(DEV_ID_BASE)
    ELSE IF contains(api_url, LOCALHOST) THEN Str(LOCAL_ID_BASE)
    ELSE None

default_id_base(api_url) ==
    IF contains(api_url, LOCALHOST) THEN Str(LOCAL_ID_BASE)
    ELSE IF contains(api_url, WWT_DEV) THEN Str(DEV_ID_BASE)
    ELSE None

\* the identity base: the two environment variables, then the default
id_base_keycloak_first(env, default) ==
    IF "KEYCLOAK_URL" \in DOMAIN env
    THEN Str(env["KEYCLOAK_URL"])
    ELSE environ_get(env, "NUXT_PUBLIC_KEYCLOAK_URL", default)

id_base_of(env, default) ==
    LET id_base == environ_get(env, "NUXT_PUBLIC_KEYCLOAK_URL", None)
    IN  IF id_base = None
        THEN environ_get(env, "KEYCLOAK_URL", default)
        ELSE id_base

\* api_url.endswith("/") => api_url[:-1]
strip_one_slash(api_url) ==
    IF endswith(api_url, SLASH)
    THEN SubSeq(api_url, 1, Len(api_url) - 1)
    ELSE api_url

new_default(env) ==
    LET api_url == environ_get(env, "NUXT_PUBLIC_API_URL", None)
        client_id == environ_get(env, "WWT_API_CLIENT_ID", Str(CLI_TOOL))
    IN  IF api_url = None
        THEN Raise("Exception", <<"until WWT Constellations is released, you must set the environment variable NUXT_PUBLIC_API_URL">>)
        ELSE
          LET id_base == id_base_of(env, default_id_base(api_url.s))
          IN  IF id_base = None
              THEN Raise("Exception", <<"unable to infer the WWT Constellations Keycloak URL; set the environment variable NUXT_PUBLIC_KEYCLOAK_URL">>)
              ELSE
                LET slashed == IF endswith(id_base.s, SLASH)
                               THEN id_base.s
                               ELSE id_base.s \o SLASH
                IN  Return(ClientConfig(slashed \o REALM, client_id.s,
                                        strip_one_slash(api_url.s)))

new_dev ==
    Return(ClientConfig(DEV_ID_BASE \o REALM, CLI_TOOL, DEV_API_URL))

\* Inputs: the values the environment variables take
MaxSlashes == 2

RECURSIVE Slashes(_)
Slashes(n) == IF n = 0 THEN <<>> ELSE SLASH \o Slashes(n - 1)

ApiBases ==
    { <<>>,
      <<"http:", "/", "/", "localhost", ":7000">>,
      <<"https:", "/", "/", "api.", "wwtelescope.dev">>,
      <<"https:", "/", "/", "localhost", ".", "wwtelescope.dev">>,
      <<"https:", "/", "/", "example.org">> }

ApiUrls == { b \o Slashes(n) : b \in ApiBases, n \in 0..MaxSlashes }

KeycloakUrls ==
    { <<>>,
      <<"https:", "/", "/", "id.", "example.org">>,
      <<"https:", "/", "/", "id.", "example.org", "/">> }

Keycloak2Urls ==
    { <<"http:", "/", "/", "keycloak", ":8080">>,
      <<"http:", "/", "/", "keycloak", ":8080", "/", "/">> }

ClientIds == { <<"my-client">> }

EnvValues(key) ==
    CASE key = "NUXT_PUBLIC_API_URL" -> ApiUrls
      [] key = "NUXT_PUBLIC_KEYCLOAK_URL" -> KeycloakUrls
      [] key = "KEYCLOAK_URL" -> Keycloak2Urls
      [] key = "WWT_API_CLIENT_ID" -> ClientIds

EnvVars == { "NUXT_PUBLIC_API_URL", "NUXT_PUBLIC_KEYCLOAK_URL",
             "KEYCLOAK_URL", "WWT_API_CLIENT_ID" }

EmptyEnv == [k \in {} |-> <<>>]

\* os.environ[key] = value, from outside the library
SetEnv ==
    /\ \E key \in EnvVars : \E value \in EnvValues(key) :
         environ' = [k \in DOMAIN environ \cup {key} |->
                        IF k = key THEN value ELSE environ[k]]
    /\ cfg_result' = [ctor |-> "none", out |-> NoCall]
    /\ UNCHANGED <<strip_vars, cx_vars, rt_vars>>

\* del os.environ[key], from outside the library
UnsetEnv ==
    /\ \E key \in DOMAIN environ :
         environ' = [k \in DOMAIN environ \ {key} |-> environ[k]]
    /\ cfg_result' = [ctor |-> "none", out |-> NoCall]
    /\ UNCHANGED <<strip_vars, cx_vars, rt_vars>>

CallNewDefault ==
    /\ cfg_result' = [ctor |-> "new_default", out |-> new_default(environ)]
    /\ UNCHANGED <<environ, strip_vars, cx_vars, rt_vars>>

CallNewDev ==
    /\ cfg_result' = [ctor |-> "new_dev", out |-> new_dev]
    /\ UNCHANGED <<environ, strip_vars, cx_vars, rt_vars>>

----------------------------------------------------------------------------
(* _strip_nulls_in_place *)

\* as _strip_nulls_in_place, without the recursion into sub-dictionaries
strip_nulls_top_level_only(d) ==
    Dict([key \in { k \in DOMAIN d.d : d.d[k] # None } |-> d.d[key]])

\* the loop over d.items(), the recursion into sub-dictionaries only, and
\* the deletion of the keys collected
RECURSIVE _strip_nulls_in_place(_)
_strip_nulls_in_place(d) ==
    LET keys_to_remove ==
            { key \in DOMAIN d.d :
                ~isinstance_dict(d.d[key]) /\ d.d[key] = None }
    IN  Dict([key \in DOMAIN d.d \ keys_to_remove |->
                IF isinstance_dict(d.d[key])
                THEN _strip_nulls_in_place(d.d[key])
                ELSE d.d[key]])

\* Inputs: nested mappings
MaxNest == 1
MaxStrips == 2

Keys == { "a", "b" }
Leaves == { None, Str(<<"x">>), List(<<Dict([k \in {"a"} |-> None])>>) }

RECURSIVE DictsOfDepth(_)
DictsOfDepth(n) ==
    LET values == IF n = 0 THEN Leaves ELSE Leaves \cup DictsOfDepth(n - 1)
    IN  { Dict(f) : f \in UNION { [S -> values] : S \in SUBSET Keys } }

NestedDicts == DictsOfDepth(MaxNest)

NotStripped == [n |-> 0, d |-> EmptyDict, once |-> EmptyDict]

\* d = _strip_nulls_in_place(d), on the mapping that the last call returned
StripStep ==
    /\ strip_out.n < MaxStrips
    /\ LET d == IF strip_out.n = 0 THEN strip_in ELSE strip_out.d
           out == _strip_nulls_in_place(d)
       IN  strip_out' = [n |-> strip_out.n + 1, d |-> out,
                         once |-> IF strip_out.n = 0 THEN out
                                  ELSE strip_out.once]
    /\ UNCHANGED <<strip_in, cfg_vars, cx_vars, rt_vars>>

----------------------------------------------------------------------------
(* Data classes: data.py, and the request classes of handles.py *)

Obj(cls, f) == [t |-> "obj", cls |-> cls, f |-> f]

\* the fields a dataclass declares
FieldsOf(cls) ==
    CASE cls = "HandleInfo" -> { "handle", "display_name" }
      [] cls = "HandleUpdate" -> { "display_name" }
      [] cls = "ImageSummary" ->
            { "id", "handle_id", "creation_date", "note", "storage" }
      [] cls = "ImageContentPermissions" ->
            { "copyright", "credits", "license" }
      [] cls = "ImageUpdate" -> { "note", "permissions" }
      [] cls = "ScenePreviews" -> { "video", "thumbnail" }
      [] cls = "SceneUpdate" -> { "outgoing_url", "place", "text" }
      [] cls = "ImageWwt" ->
            { "base_degrees_per_tile", "bottoms_up", "center_x", "center_y",
              "file_type", "offset_x", "offset_y", "projection",
              "quad_tree_map", "rotation", "tile_levels", "width_factor",
              "thumbnail_url" }
      [] cls = "ImageStorage" -> { "legacy_url_template" }
      [] cls = "ScenePlace" ->
            { "ra_rad", "dec_rad", "roll_rad", "roi_height_deg",
              "roi_aspect_ratio" }
      [] cls = "SceneImageLayer" -> { "image_id", "opacity" }
      [] cls = "SceneContent" -> { "image_layers" }
      [] cls = "AddImageRequest" -> { "wwt", "storage", "note" }
      [] cls = "AddSceneRequest" ->
            { "place", "content", "outgoing_url", "text" }
      [] cls = "FindImagesByLegacyRequest" -> { "wwt_legacy_url" }

\* the fields a dataclass declares with a default (every default is None)
DefaultedOf(cls) ==
    CASE cls = "HandleUpdate" -> { "display_name" }
      [] cls = "ImageStorage" -> { "legacy_url_template" }
      [] cls = "SceneContent" -> { "image_layers" }
      [] cls = "ImageUpdate" -> { "note", "permissions" }
      [] cls = "ScenePreviews" -> { "video", "thumbnail" }
      [] OTHER -> {}

\* the fields a dataclass declares as Optional[...]
OptionalOf(cls) ==
    CASE cls = "HandleUpdate" -> { "display_name" }
      [] cls = "ImageStorage" -> { "legacy_url_template" }
      [] cls = "ImageContentPermissions" -> { "credits" }
      [] cls = "ImageUpdate" -> { "note", "permissions" }
      [] cls = "SceneContent" -> { "image_layers" }
      [] cls = "ScenePreviews" -> { "video", "thumbnail" }
      [] cls = "SceneUpdate" -> { "outgoing_url", "place", "text" }
      [] cls = "AddSceneRequest" -> { "outgoing_url" }
      [] OTHER -> {}

\* the dataclass a field holds, or holds a list of; "" for a plain value
ClassOf(cls, k) ==
    CASE cls = "ImageSummary" /\ k = "storage" -> "ImageStorage"
      [] cls = "ImageUpdate" /\ k = "permissions" -> "ImageContentPermissions"
      [] cls = "SceneContent" /\ k = "image_layers" -> "SceneImageLayer"
      [] cls = "SceneUpdate" /\ k = "place" -> "ScenePlace"
      [] cls = "AddImageRequest" /\ k = "wwt" -> "ImageWwt"
      [] cls = "AddImageRequest" /\ k = "storage" -> "ImageStorage"
      [] cls = "AddSceneRequest" /\ k = "place" -> "ScenePlace"
      [] cls = "AddSceneRequest" /\ k = "content" -> "SceneContent"
      [] OTHER -> ""

\* the key of a field in JSON: config(field_name=...), else the field's name
data_key(cls, k) == IF cls = "ImageSummary" /\ k = "id" THEN "_id" ELSE k

field_of(cls, key) == CHOOSE k \in FieldsOf(cls) : data_key(cls, k) = key

\* CX_LICENSING.validate(license, strict=True).errors is empty: the
\* expression is one known SPDX key
SPDX_KEYS == { "MIT", "CC-BY-4.0" }
license_ok(license) == Len(license.s) = 1 /\ license.s[1] \in SPDX_KEYS

\* CX_SANITIZER.sanitize(text): tags outside the allowed set are dropped with
\* their text kept, b and i become strong and em
ALLOWED_TAGS ==
    { "<b>", "</b>", "<strong>", "</strong>", "<i>", "</i>", "<em>", "</em>",
      "<a>", "</a>", "<br>" }
OTHER_TAGS == { "<div>", "</div>", "<span>", "</span>" }

sanitize_token(t) ==
    CASE t = "<b>" -> "<strong>"
      [] t = "</b>" -> "</strong>"
      [] t = "<i>" -> "<em>"
      [] t = "</i>" -> "</em>"
      [] OTHER -> t

sanitize(text) ==
    LET kept == SelectSeq(text, LAMBDA t : t \notin OTHER_TAGS)
    IN  [i \in 1..Len(kept) |-> sanitize_token(kept[i])]

\* ImageContentPermissions.__post_init__; no other class has one
post_init(obj) ==
    IF obj.cls # "ImageContentPermissions" THEN Return(obj)
    ELSE IF ~license_ok(obj.f.license)
    THEN Raise("ExpressionError", <<"Invalid SPDX license:">>)
    ELSE IF obj.f.credits = None \/ obj.f.credits = Str(<<>>)
    THEN Return(obj)
    ELSE Return([obj EXCEPT !.f.credits = Str(sanitize(@.s))])

\* the generated __init__ of a dataclass, called with keyword arguments
dataclass_init(cls, kwargs) ==
    IF /\ DOMAIN kwargs \subseteq FieldsOf(cls)
       /\ FieldsOf(cls) \ DefaultedOf(cls) \subseteq DOMAIN kwargs
    THEN post_init(Obj(cls, [k \in FieldsOf(cls) |->
                            IF k \in DOMAIN kwargs THEN kwargs[k] ELSE None]))
    ELSE Raise("TypeError", <<cls, ".__init__()">>)

\* dataclasses_json to_dict(): dataclasses become dictionaries keyed by
\* their fields' JSON keys, also inside lists; None stays None
RECURSIVE to_dict(_)
to_dict(v) ==
    CASE v.t = "obj" ->
            Dict([key \in { data_key(v.cls, k) : k \in DOMAIN v.f } |->
                    to_dict(v.f[field_of(v.cls, key)])])
      [] v.t = "list" -> List([i \in 1..Len(v.l) |-> to_dict(v.l[i])])
      [] OTHER -> v

\* X.schema().load(payload) for a dataclass X, field by field: a key that
\* is missing is an error unless the field has a default, null is an error
\* unless the field is Optional, a key that is no field is an error; the
\* loaded values are handed to X(...).  (Plain values are taken as they are.)
RECURSIVE schema_load_as(_, _)
field_load(cls, k, payload) ==
    LET key == data_key(cls, k)
    IN  IF key \notin DOMAIN payload.d
        THEN IF k \in DefaultedOf(cls) THEN Return(None)
             ELSE Raise("ValidationError",
                        <<key, ": Missing data for required field.">>)
        ELSE
          LET v == payload.d[key]
          IN  IF v = None
              THEN IF k \in OptionalOf(cls) THEN Return(None)
                   ELSE Raise("ValidationError",
                              <<key, ": Field may not be null.">>)
              ELSE IF ClassOf(cls, k) = "" THEN Return(v)
              ELSE IF v.t = "list"
              THEN LET items == [i \in 1..Len(v.l) |->
                                    schema_load_as(ClassOf(cls, k), v.l[i])]
                   IN  IF \E i \in 1..Len(v.l) : items[i].kind = "raise"
                       THEN Raise("ValidationError", <<key>>)
                       ELSE Return(List([i \in 1..Len(v.l) |->
                                            items[i].value]))
              ELSE schema_load_as(ClassOf(cls, k), v)

schema_load_as(cls, payload) ==
    LET got == [k \in FieldsOf(cls) |-> field_load(cls, k, payload)]
        bad == { k \in FieldsOf(cls) : got[k].kind = "raise" }
        keys == { data_key(cls, k) : k \in FieldsOf(cls) }
    IN  IF bad # {}
        THEN Raise("ValidationError", got[CHOOSE k \in bad : TRUE].msg)
        ELSE IF ~(DOMAIN payload.d \subseteq keys)
        THEN Raise("ValidationError", <<"Unknown field.">>)
        ELSE dataclass_init(cls, [k \in FieldsOf(cls) |-> got[k].value])

----------------------------------------------------------------------------
(* The round trip of a model value: X(...), to_dict(), strip, load *)

Omitted == [t |-> "omitted"]

\* the keyword arguments that give each name one of its choices, a name
\* whose choice is Omitted being left out
KwargsFrom(choices) ==
    LET all == UNION { choices[k] : k \in DOMAIN choices }
        picks == { f \in [DOMAIN choices -> all] :
                     \A k \in DOMAIN choices : f[k] \in choices[k] }
    IN  { [k \in { j \in DOMAIN f : f[j] # Omitted } |-> f[k]] : f \in picks }

Calls(cls, choices) ==
    { [cls |-> cls, kwargs |-> kw] : kw \in KwargsFrom(choices) }

RtText == Str(<<"x">>)
RtMarkup == Str(<<"<b>", "x", "</b>", "<div>", "y", "</div>">>)

RtPlace ==
    Obj("ScenePlace",
        [ra_rad |-> Num(1), dec_rad |-> Num(0), roll_rad |-> Num(0),
         roi_height_deg |-> Num(2), roi_aspect_ratio |-> Num(1)])

RtLayers ==
    List(<<Obj("SceneImageLayer",
               [image_id |-> Str(<<"id-a">>), opacity |-> Num(1)])>>)

RtPermissions ==
    Obj("ImageContentPermissions",
        [copyright |-> RtText, credits |-> None, license |-> Str(<<"MIT">>)])

RtCalls ==
    Calls("HandleInfo", [handle |-> {RtText}, display_name |-> {RtText}])
    \cup Calls("HandleUpdate", [display_name |-> {Omitted, None, RtText}])
    \cup Calls("ImageStorage",
               [legacy_url_template |-> {Omitted, None, RtText}])
    \cup Calls("ImageSummary",
               [id |-> {RtText}, handle_id |-> {RtText},
                creation_date |-> {RtText}, note |-> {RtText},
                storage |-> { Obj("ImageStorage",
                                  [legacy_url_template |-> v]) :
                              v \in {None, RtText} }])
    \cup Calls("ImageContentPermissions",
               [copyright |-> {RtText},
                credits |-> {Omitted, None, RtText, RtMarkup},
                license |-> {Str(<<"MIT">>), Str(<<"no", " ", "license">>)}])
    \cup Calls("ImageUpdate",
               [note |-> {Omitted, RtText},
                permissions |-> {Omitted, RtPermissions}])
    \cup Calls("SceneImageLayer",
               [image_id |-> {RtText}, opacity |-> {Num(1)}])
    \cup Calls("SceneContent",
               [image_layers |-> {Omitted, List(<<>>), RtLayers}])
    \cup Calls("ScenePreviews",
               [video |-> {Omitted, RtText}, thumbnail |-> {None, RtText}])
    \cup Calls("SceneUpdate",
               [outgoing_url |-> {None, RtText}, place |-> {None, RtPlace},
                text |-> {None, RtText}])
    \cup Calls("SceneUpdate",
               [outgoing_url |-> {Omitted}, place |-> {Omitted},
                text |-> {Omitted}])

RtIdle ==
    [stage |-> "idle", made |-> NoCall, enc |-> EmptyDict,
     stripped |-> FALSE, out |-> NoCall]

\* x = X(**kwargs)
RtConstruct ==
    /\ rt.stage = "idle"
    /\ \E c \in RtCalls :
          rt' = [rt EXCEPT !.stage = "made",
                           !.made = dataclass_init(c.cls, c.kwargs)]
    /\ UNCHANGED <<cfg_vars, strip_vars, cx_vars>>

\* d = x.to_dict()
RtEncode ==
    /\ rt.stage = "made"
    /\ rt.made.kind = "return"
    /\ rt' = [rt EXCEPT !.stage = "encoded", !.enc = to_dict(rt.made.value)]
    /\ UNCHANGED <<cfg_vars, strip_vars, cx_vars>>

\* d = _strip_nulls_in_place(d)
RtStrip ==
    /\ rt.stage = "encoded"
    /\ ~rt.stripped
    /\ rt' = [rt EXCEPT !.stripped = TRUE,
                        !.enc = _strip_nulls_in_place(rt.enc)]
    /\ UNCHANGED <<cfg_vars, strip_vars, cx_vars>>

\* X.schema().load(d)
RtDecode ==
    /\ rt.stage = "encoded"
    /\ rt' = [rt EXCEPT !.stage = "decoded",
                        !.out = schema_load_as(rt.made.value.cls, rt.enc)]
    /\ UNCHANGED <<cfg_vars, strip_vars, cx_vars>>

----------------------------------------------------------------------------
(* CxClient: the session *)

DEFAULT_SCOPES == <<"profile", "offline_access">>

\* the arguments _send_and_check hands to OpenIDCClient.send_request
send_request_args_reusing_token(cfg, rel_url, kwargs) ==
    [url |-> cfg.api_url \o rel_url, new_token |-> FALSE,
     scopes |-> DEFAULT_SCOPES, kwargs |-> kwargs]

send_request_args(cfg, rel_url, kwargs) ==
    [url |-> cfg.api_url \o rel_url, new_token |-> TRUE,
     scopes |-> DEFAULT_SCOPES, kwargs |-> kwargs]

\* the HTTP method OpenIDCClient.send_request uses: its http_method keyword,
\* which the token client defaults to POST
http_method_of(kwargs) ==
    IF "http_method" \in DOMAIN kwargs THEN kwargs.http_method ELSE "POST"

\* Response.raise_for_status(): the text of the HTTPError, or <<>> when the
\* status is no error
http_error_str(resp, url) ==
    IF resp.status_code >= 400 /\ resp.status_code < 500
    THEN <<ToString(resp.status_code), " Client Error: ", resp.reason,
           " for url: ">> \o url
    ELSE IF resp.status_code >= 500 /\ resp.status_code < 600
    THEN <<ToString(resp.status_code), " Server Error: ", resp.reason,
           " for url: ">> \o url
    ELSE <<>>

\* e.args = (f"{e}: {e.response.text}",)
digest_without_body(e_str, text) == e_str

digest(e_str, text) == e_str \o <<": ">> \o text

\* _send_and_check(rel_url, **kwargs), the server answering resp: the
\* exchange, and the response returned or the error raised
_send_and_check(cfg, rel_url, kwargs, resp) ==
    LET req == send_request_args(cfg, rel_url, kwargs)
        e_str == http_error_str(resp, req.url)
    IN  [exchange |-> [req |-> req, resp |-> resp],
         out |-> IF e_str # <<>>
                 THEN Raise("HTTPError", digest(e_str, resp.text))
                 ELSE Return(resp)]

\* Server answers
ERR_BODY == <<"{\"error\":true,\"detail\":\"bad request\"}">>

Response(status_code, reason, text, json) ==
    [status_code |-> status_code, reason |-> reason, text |-> text,
     json |-> json]

Failures ==
    { Response(400, "Bad Request", ERR_BODY, None),
      Response(500, "Internal Server Error", <<"oops">>, None) }

Envelope(payload) ==
    Dict([k \in DOMAIN payload \cup {"error"} |->
            IF k = "error" THEN Bool(FALSE) ELSE payload[k]])

Ok(payload) == Response(200, "OK", <<"{\"error\":false,...}">>, Envelope(payload))

\* as pop_error, leaving the key in the dictionary
pop_error_keeping(json) ==
    IF "error" \in DOMAIN json.d
    THEN Return(json)
    ELSE Raise("KeyError", <<"error">>)

\* resp.pop("error")
pop_error(json) ==
    IF "error" \in DOMAIN json.d
    THEN Return(Dict([k \in DOMAIN json.d \ {"error"} |-> json.d[k]]))
    ELSE Raise("KeyError", <<"error">>)

\* X.schema().load(payload): the fields of the class, all required, and no
\* key that is not a field
schema_load(fields, payload) ==
    IF ~(fields \subseteq DOMAIN payload.d)
    THEN Raise("ValidationError", <<"Missing data for required field.">>)
    ELSE IF ~(DOMAIN payload.d \subseteq fields)
    THEN Raise("ValidationError", <<"Unknown field.">>)
    ELSE Return(Dict([k \in fields |-> payload.d[k]]))

----------------------------------------------------------------------------
(* HandleClient: the handle-scoped operations *)

\* urllib.parse.quote(handle): unreserved characters and "/" are kept, any
\* other character is percent-encoded
quote_char(c) ==
    CASE c = " " -> "%20"
      [] c = "?" -> "%3F"
      [] c = "#" -> "%23"
      [] OTHER -> c

quote(s) == [i \in 1..Len(s) |-> quote_char(s[i])]

\* HandleClient.__init__: self._url_base
url_base_of_unquoted(h) == <<"/", "handle", "/">> \o h

url_base_of(h) == <<"/", "handle", "/">> \o quote(h)

\* the outcome of a schema().load call, with the payload it was given
decoding(payload, outcome) == outcome @@ [input |-> payload]

\* what an operation did: the exchanges on the wire, the payloads it handed
\* to schema().load, and its outcome
Done(exchanges, out) ==
    [wire |-> exchanges,
     decoded |-> IF "input" \in DOMAIN out THEN <<out.input>> ELSE <<>>,
     out |-> [k \in DOMAIN out \ {"input"} |-> out[k]]]

\* resp = resp.json(); resp.pop("error"), after _send_and_check
json_without_error(sent) ==
    IF sent.out.kind = "raise"
    THEN sent.out
    ELSE pop_error(sent.out.value.json)

\* X.schema().load(resp) on what json_without_error left
loaded(fields, popped) ==
    IF popped.kind = "raise" THEN popped
    ELSE decoding(popped.value, schema_load(fields, popped.value))

\* the attribute `name` of the loaded model
attribute(model, name) ==
    IF model.kind = "raise" THEN model
    ELSE [model EXCEPT !.value = model.value.d[name]]

HandleInfoFields == { "handle", "display_name" }
HandlePermissionsFields == { "handle", "view_dashboard" }
HandleStatsFields == { "handle", "images", "scenes" }
SceneInfoResponseFields == { "total_count", "results" }
AddImageResponseFields == { "id", "rel_url" }
AddSceneResponseFields == { "id", "rel_url" }
TimelineResponseFields == { "results" }
FindImagesByLegacyResponseFields == { "error", "results" }

\* as get, sending the request a second time when the first one fails
get_with_retry(cfg, base, resp) ==
    LET sent == _send_and_check(cfg, base, [http_method |-> "GET"], resp)
    IN  Done(IF sent.out.kind = "raise"
             THEN <<sent.exchange, sent.exchange>>
             ELSE <<sent.exchange>>,
             loaded(HandleInfoFields, json_without_error(sent)))

get(cfg, base, resp) ==
    LET sent == _send_and_check(cfg, base, [http_method |-> "GET"], resp)
    IN  Done(<<sent.exchange>>,
             loaded(HandleInfoFields, json_without_error(sent)))

permissions(cfg, base, resp) ==
    LET sent == _send_and_check(cfg, base \o <<"/", "permissions">>,
                                [http_method |-> "GET"], resp)
    IN  Done(<<sent.exchange>>,
             loaded(HandlePermissionsFields, json_without_error(sent)))

stats(cfg, base, resp) ==
    LET sent == _send_and_check(cfg, base \o <<"/", "stats">>,
                                [http_method |-> "GET"], resp)
    IN  Done(<<sent.exchange>>,
             loaded(HandleStatsFields, json_without_error(sent)))

\* int(x): a number is kept, None raises
int_of(x) == IF x.t = "num" THEN Return(x.n) ELSE Raise("TypeError", <<>>)

PAGE_SIZE_MIN == 1
PAGE_SIZE_MAX == 100

\* try: use = int(x); assert ... except Exception: raise ValueError
page_num_ok(page_num) ==
    LET use_page_num == int_of(page_num)
    IN  use_page_num.kind = "return" /\ use_page_num.value >= 0

page_size_ok_below_max(page_size) ==
    LET use_page_size == int_of(page_size)
    IN  /\ use_page_size.kind = "return"
        /\ use_page_size.value >= PAGE_SIZE_MIN
        /\ use_page_size.value < PAGE_SIZE_MAX

page_size_ok(page_size) ==
    LET use_page_size == int_of(page_size)
    IN  /\ use_page_size.kind = "return"
        /\ use_page_size.value >= PAGE_SIZE_MIN
        /\ use_page_size.value <= PAGE_SIZE_MAX

scene_info(cfg, base, page_num, page_size, resp) ==
    IF ~page_num_ok(page_num)
    THEN Done(<<>>, Raise("ValueError", <<"invalid page_num argument">>))
    ELSE IF ~page_size_ok(page_size)
    THEN Done(<<>>, Raise("ValueError", <<"invalid page_size argument">>))
    ELSE
      LET sent == _send_and_check(cfg, base \o <<"/", "sceneinfo">>,
                      [http_method |-> "GET",
                       params |-> [page |-> int_of(page_num).value,
                                   pagesize |-> int_of(page_size).value]],
                      resp)
      IN  Done(<<sent.exchange>>,
               attribute(loaded(SceneInfoResponseFields,
                                json_without_error(sent)), "results"))

get_timeline(cfg, base, page_num, resp) ==
    IF ~page_num_ok(page_num)
    THEN Done(<<>>, Raise("ValueError", <<"invalid page_num argument">>))
    ELSE
      LET sent == _send_and_check(cfg, base \o <<"/", "timeline">>,
                      [http_method |-> "GET",
                       params |-> [page |-> int_of(page_num).value]],
                      resp)
      IN  Done(<<sent.exchange>>,
               attribute(loaded(TimelineResponseFields,
                                json_without_error(sent)), "results"))

\* the json= argument of a sending operation, from its request model
body_not_stripped(model) == to_dict(model)

body(model) == _strip_nulls_in_place(to_dict(model))

update(cfg, base, updates, resp) ==
    LET sent == _send_and_check(cfg, base,
                      [http_method |-> "PATCH", json |-> body(updates)], resp)
    IN  Done(<<sent.exchange>>, json_without_error(sent))

add_image(cfg, base, image, resp) ==
    LET sent == _send_and_check(cfg, base \o <<"/", "image">>,
                      [http_method |-> "POST", json |-> body(image)], resp)
    IN  Done(<<sent.exchange>>,
             attribute(loaded(AddImageResponseFields,
                              json_without_error(sent)), "id"))

add_scene(cfg, base, scene, resp) ==
    LET sent == _send_and_check(cfg, base \o <<"/", "scene">>,
                      [http_method |-> "POST", json |-> body(scene)], resp)
    IN  Done(<<sent.exchange>>,
             attribute(loaded(AddSceneResponseFields,
                              json_without_error(sent)), "id"))

\* ImageSummary.schema().load(item): the wire name "_id" is the field id
ImageSummaryWire == { "_id", "handle_id", "creation_date", "note", "storage" }

image_summary_load(item) ==
    Dict([k \in { "id", "handle_id", "creation_date", "note", "storage" } |->
            IF k = "id" THEN item.d["_id"] ELSE item.d[k]])

\* FindImagesByLegacyResponse.schema().load(json): the envelope is loaded
\* whole, its results as ImageSummary
find_response_load(json) ==
    LET top == schema_load(FindImagesByLegacyResponseFields, json)
    IN  IF top.kind = "raise" THEN top
        ELSE IF \E i \in 1..Len(json.d["results"].l) :
                   ImageSummaryWire # DOMAIN json.d["results"].l[i].d
        THEN Raise("ValidationError", <<"results">>)
        ELSE Return(Dict([k \in FindImagesByLegacyResponseFields |->
                IF k = "results"
                THEN List([i \in 1..Len(json.d["results"].l) |->
                            image_summary_load(json.d["results"].l[i])])
                ELSE json.d[k]]))

\* CxClient.find_images_by_wwt_url
find_images_by_wwt_url(cfg, wwt_url, resp) ==
    LET req == dataclass_init("FindImagesByLegacyRequest",
                              [wwt_legacy_url |-> Str(wwt_url)]).value
        sent == _send_and_check(cfg,
                      <<"/", "images", "/", "find-by-legacy-url">>,
                      [json |-> body(req)], resp)
        model == IF sent.out.kind = "raise" THEN sent.out
                 ELSE decoding(sent.out.value.json,
                               find_response_load(sent.out.value.json))
    IN  Done(<<sent.exchange>>, attribute(model, "results"))

\* x or ""
or_empty(x) == IF x = None \/ x = Str(<<>>) THEN Str(<<>>) ELSE x

SKY == "Sky"

\* the keyword arguments of ImageWwt(...) in add_image_from_set
image_wwt_kwargs(imageset) ==
    [base_degrees_per_tile |-> imageset.base_degrees_per_tile,
     bottoms_up |-> imageset.bottoms_up,
     center_x |-> imageset.center_x,
     center_y |-> imageset.center_y,
     file_type |-> imageset.file_type,
     offset_x |-> imageset.offset_x,
     offset_y |-> imageset.offset_y,
     projection |-> imageset.projection.value,
     quad_tree_map |-> or_empty(imageset.quad_tree_map),
     rotation |-> imageset.rotation_deg,
     tile_levels |-> imageset.tile_levels,
     width_factor |-> imageset.width_factor,
     thumbnail_url |-> imageset.thumbnail_url]

\* the two checks that open add_image_from_set: the error raised, or NoCall
imageset_rejection_type_only(imageset) ==
    IF imageset.data_set_type # SKY
    THEN Raise("ValueError", <<"Constellations imagesets must be of Sky type">>)
    ELSE NoCall

imageset_rejection(imageset) ==
    IF imageset.data_set_type # SKY
    THEN Raise("ValueError", <<"Constellations imagesets must be of Sky type">>)
    ELSE IF imageset.base_tile_level # 0
    THEN Raise("ValueError", <<"Constellations imagesets must have base tile levels of 0">>)
    ELSE NoCall

add_image_from_set(cfg, base, imageset, resp) ==
    IF imageset_rejection(imageset).kind = "raise"
    THEN Done(<<>>, imageset_rejection(imageset))
    ELSE
      LET api_wwt == dataclass_init("ImageWwt", image_wwt_kwargs(imageset))
          storage == dataclass_init("ImageStorage",
                                    [legacy_url_template |-> imageset.url])
      IN  IF api_wwt.kind = "raise" THEN Done(<<>>, api_wwt)
          ELSE IF storage.kind = "raise" THEN Done(<<>>, storage)
          ELSE
            LET req == dataclass_init("AddImageRequest",
                          [wwt |-> api_wwt.value, storage |-> storage.value,
                           note |-> imageset.name])
            IN  IF req.kind = "raise" THEN Done(<<>>, req)
                ELSE add_image(cfg, base, req.value, resp)

\* x * H2R, x * D2R: the product is kept symbolic
times(x, factor) == [t |-> "product", x |-> x, by |-> factor]
H2R == "pi/12"
D2R == "pi/180"

\* as scene_layers, going on to the next reference when a lookup finds
\* nothing
RECURSIVE scene_layers_skipping_misses(_, _, _, _)
scene_layers_skipping_misses(cfg, isets, resps, i) ==
    IF i > Len(isets)
    THEN [wire |-> <<>>, decoded |-> <<>>, layers |-> <<>>, err |-> NoCall]
    ELSE IF isets[i] = None
    THEN scene_layers_skipping_misses(cfg, isets, resps, i + 1)
    ELSE
      LET found == find_images_by_wwt_url(cfg, isets[i].url, resps[i])
          rest == scene_layers_skipping_misses(cfg, isets, resps, i + 1)
      IN  IF found.out.kind = "raise"
          THEN [wire |-> found.wire, decoded |-> found.decoded,
                layers |-> <<>>, err |-> found.out]
          ELSE [wire |-> found.wire \o rest.wire,
                decoded |-> found.decoded \o rest.decoded,
                layers |-> IF rest.err.kind = "raise" THEN <<>>
                           ELSE IF found.out.value.l = <<>> THEN rest.layers
                           ELSE <<dataclass_init("SceneImageLayer",
                                     [image_id |-> found.out.value.l[1].d["id"],
                                      opacity |-> Num(1)]).value>>
                                   \o rest.layers,
                err |-> rest.err]

\* the loop of add_scene_from_place over the image references from the
\* i-th on: the exchanges, the layers built, and the error that ended it
RECURSIVE scene_layers(_, _, _, _)
scene_layers(cfg, isets, resps, i) ==
    IF i > Len(isets)
    THEN [wire |-> <<>>, decoded |-> <<>>, layers |-> <<>>, err |-> NoCall]
    ELSE IF isets[i] = None
    THEN scene_layers(cfg, isets, resps, i + 1)
    ELSE
      LET found == find_images_by_wwt_url(cfg, isets[i].url, resps[i])
      IN  IF found.out.kind = "raise"
          THEN [wire |-> found.wire, decoded |-> found.decoded,
                layers |-> <<>>, err |-> found.out]
          ELSE IF found.out.value.l = <<>>
          THEN [wire |-> found.wire, decoded |-> found.decoded,
                layers |-> <<>>,
                err |-> Raise("Exception",
                    <<"unable to find Constellations record for image URL ">>
                      \o isets[i].url)]
          ELSE
            LET hits == found.out.value.l
                layer == dataclass_init("SceneImageLayer",
                            [image_id |-> hits[1].d["id"],
                             opacity |-> Num(1)]).value
                rest == scene_layers(cfg, isets, resps, i + 1)
            IN  [wire |-> found.wire \o rest.wire,
                 decoded |-> found.decoded \o rest.decoded,
                 layers |-> IF rest.err.kind = "raise" THEN <<>>
                            ELSE <<layer>> \o rest.layers,
                 err |-> rest.err]

\* the keyword arguments of ScenePlace(...) in add_scene_from_place
scene_place_kwargs(place) ==
    [ra_rad |-> times(place.ra_hr, H2R),
     dec_rad |-> times(place.dec_deg, D2R),
     zoom_deg |-> place.zoom_level,
     roll_rad |-> times(place.rotation_deg, D2R)]

\* resps[1..3] answer the lookups, resps[4] the POST of the scene
add_scene_from_place(cfg, base, place, resps) ==
    LET looked == scene_layers(cfg,
                      <<place.background_image_set, place.image_set,
                        place.foreground_image_set>>, resps, 1)
    IN  IF looked.err.kind = "raise"
        THEN [Done(looked.wire, looked.err) EXCEPT !.decoded = looked.decoded]
        ELSE
          LET api_place == dataclass_init("ScenePlace",
                                          scene_place_kwargs(place))
              content == dataclass_init("SceneContent",
                            [image_layers |-> List(looked.layers)])
          IN  IF api_place.kind = "raise"
              THEN [Done(looked.wire, api_place)
                      EXCEPT !.decoded = looked.decoded]
              ELSE
                LET req == dataclass_init("AddSceneRequest",
                              [place |-> api_place.value,
                               content |-> content.value,
                               text |-> place.name,
                               outgoing_url |-> None])
                    added == add_scene(cfg, base, req.value, resps[4])
                IN  [Done(looked.wire \o added.wire, added.out)
                        EXCEPT !.decoded = looked.decoded \o added.decoded]

----------------------------------------------------------------------------
(* Inputs of the operations, and the answers of the server *)

MaxSent == 2
MaxPageNum == 1
MaxBaseTileLevel == 1

Configs ==
    { new_dev.value,
      new_default([NUXT_PUBLIC_API_URL |->
                      <<"http:", "/", "/", "localhost", ":7000">>]).value }

Handles == { <<"wwt">>, <<"my", " ", "handle">> }

PageNums == { Num(n) : n \in (0 - MaxPageNum)..MaxPageNum }

PageSizes ==
    { None, Num(0 - 1), Num(10) }
        \cup { Num(n) : n \in (PAGE_SIZE_MIN - 1)..(PAGE_SIZE_MIN + 1) }
        \cup { Num(n) : n \in (PAGE_SIZE_MAX - 1)..(PAGE_SIZE_MAX + 1) }

URL_BG == <<"http:", "/", "/", "data", "/", "bg", "/", "{1}", ".png">>
URL_MAIN == <<"http:", "/", "/", "data", "/", "main", "/", "{1}", ".png">>
URL_FG == <<"http:", "/", "/", "data", "/", "fg", "/", "{1}", ".png">>

HandleUpdates ==
    { dataclass_init("HandleUpdate", kw).value :
        kw \in { [k \in {} |-> None], [display_name |-> Str(<<"WWT">>)] } }

AnImageWwt ==
    dataclass_init("ImageWwt",
        [base_degrees_per_tile |-> Num(180), bottoms_up |-> Bool(FALSE),
         center_x |-> Num(0), center_y |-> Num(0),
         file_type |-> Str(<<".png">>), offset_x |-> Num(0),
         offset_y |-> Num(0), projection |-> Str(<<"Toast">>),
         quad_tree_map |-> Str(<<>>), rotation |-> Num(0),
         tile_levels |-> Num(4), width_factor |-> Num(2),
         thumbnail_url |-> Str(<<"thumb", ".jpg">>)]).value

ImageStorages ==
    { dataclass_init("ImageStorage", kw).value :
        kw \in { [k \in {} |-> None],
                 [legacy_url_template |-> Str(URL_MAIN)] } }

AddImageRequests ==
    { dataclass_init("AddImageRequest",
          [wwt |-> AnImageWwt, storage |-> st,
           note |-> Str(<<"an image">>)]).value : st \in ImageStorages }

AScenePlace ==
    dataclass_init("ScenePlace",
        [ra_rad |-> Num(1), dec_rad |-> Num(0), roll_rad |-> Num(0),
         roi_height_deg |-> Num(2), roi_aspect_ratio |-> Num(1)]).value

Layer(id) ==
    dataclass_init("SceneImageLayer",
        [image_id |-> Str(<<id>>), opacity |-> Num(1)]).value

SceneContents ==
    { dataclass_init("SceneContent", kw).value :
        kw \in { [k \in {} |-> None],
                 [image_layers |-> List(<<>>)],
                 [image_layers |-> List(<<Layer("id-a"), Layer("id-b")>>)] } }

AddSceneRequests ==
    { dataclass_init("AddSceneRequest",
          [place |-> AScenePlace, content |-> c, outgoing_url |-> u,
           text |-> Str(<<"a scene">>)]).value :
        c \in SceneContents,
        u \in { None, Str(<<"https:", "/", "/", "example.org">>) } }

\* wwt_data_formats.imageset.ImageSet, as far as the adapters read it
ImageSets ==
    { [data_set_type |-> ty, base_tile_level |-> lvl,
       base_degrees_per_tile |-> Num(180), bottoms_up |-> Bool(FALSE),
       center_x |-> Num(0), center_y |-> Num(0),
       file_type |-> Str(<<".png">>), offset_x |-> Num(0),
       offset_y |-> Num(0), projection |-> [value |-> Str(<<"Toast">>)],
       quad_tree_map |-> q, rotation_deg |-> Num(0), tile_levels |-> Num(4),
       width_factor |-> Num(2), thumbnail_url |-> Str(<<"thumb", ".jpg">>),
       url |-> Str(URL_MAIN), name |-> Str(<<"an imageset">>)] :
        ty \in { "Sky", "Planet", "Panorama" },
        lvl \in 0..MaxBaseTileLevel,
        q \in { Str(<<>>), Str(<<"0123">>) } }

ImageSetRef(url) == [t |-> "imageset", url |-> url]

\* wwt_data_formats.place.Place, as far as the scene adapter reads it
Places ==
    { [background_image_set |-> bg, image_set |-> main,
       foreground_image_set |-> fg, name |-> Str(<<"a place">>),
       ra_hr |-> Num(12), dec_deg |-> Num(45), zoom_level |-> Num(6),
       rotation_deg |-> Num(0)] :
        bg \in { None, ImageSetRef(URL_BG) },
        main \in { None, ImageSetRef(URL_MAIN) },
        fg \in { None, ImageSetRef(URL_FG) } }

ImageSummaryJson(id) ==
    Dict([k \in ImageSummaryWire |->
            CASE k = "_id" -> Str(<<id>>)
              [] k = "storage" -> Dict([j \in {"legacy_url_template"} |-> Str(URL_MAIN)])
              [] OTHER -> Str(<<k>>)])

OkHandleInfo ==
    Ok([handle |-> Str(<<"wwt">>), display_name |-> Str(<<"WWT">>)])
OkHandlePermissions ==
    Ok([handle |-> Str(<<"wwt">>), view_dashboard |-> Bool(TRUE)])
OkHandleStats ==
    Ok([handle |-> Str(<<"wwt">>),
        images |-> Dict([count |-> Num(1)]),
        scenes |-> Dict([count |-> Num(1), impressions |-> Num(5),
                         likes |-> Num(2)])])
OkSceneInfo == Ok([total_count |-> Num(0), results |-> List(<<>>)])
OkTimeline == Ok([results |-> List(<<>>)])
OkUpdate == Ok([k \in {} |-> None])
OkAdded == Ok([id |-> Str(<<"id-new">>), rel_url |-> Str(<<"/", "@wwt", "/", "id-new">>)])
OkFound(ids) ==
    Ok([results |-> List([i \in 1..Len(ids) |-> ImageSummaryJson(ids[i])])])

FindResponses ==
    { OkFound(<<>>), OkFound(<<"id-a">>), OkFound(<<"id-b", "id-a">>) }
        \cup { Response(400, "Bad Request", ERR_BODY, None) }

----------------------------------------------------------------------------
(* The operations as actions: the caller picks the arguments, the server    *)
(* the answers                                                             *)

Do(c, r) ==
    /\ n_sent < MaxSent
    /\ call' = c
    /\ wire' = r.wire
    /\ decoded' = r.decoded
    /\ result' = r.out
    /\ n_sent' = n_sent + Len(r.wire)
    /\ n_forced' = n_forced
          + Cardinality({ i \in 1..Len(r.wire) : r.wire[i].req.new_token })
    /\ UNCHANGED <<config, handle, url_base, cfg_vars, strip_vars, rt_vars>>

Get ==
    \E resp \in {OkHandleInfo} \cup Failures :
        Do([name |-> "get"], get(config, url_base, resp))

Permissions ==
    \E resp \in {OkHandlePermissions} \cup Failures :
        Do([name |-> "permissions"], permissions(config, url_base, resp))

Stats ==
    \E resp \in {OkHandleStats} \cup Failures :
        Do([name |-> "stats"], stats(config, url_base, resp))

SceneInfo ==
    \E page_num \in PageNums, page_size \in PageSizes,
       resp \in {OkSceneInfo} \cup Failures :
        Do([name |-> "scene_info", page_num |-> page_num,
            page_size |-> page_size],
           scene_info(config, url_base, page_num, page_size, resp))

GetTimeline ==
    \E page_num \in PageNums, resp \in {OkTimeline} \cup Failures :
        Do([name |-> "get_timeline", page_num |-> page_num],
           get_timeline(config, url_base, page_num, resp))

Update ==
    \E updates \in HandleUpdates, resp \in {OkUpdate} \cup Failures :
        Do([name |-> "update", model |-> updates],
           update(config, url_base, updates, resp))

AddImage ==
    \E image \in AddImageRequests, resp \in {OkAdded} \cup Failures :
        Do([name |-> "add_image", model |-> image],
           add_image(config, url_base, image, resp))

AddImageFromSet ==
    \E imageset \in ImageSets, resp \in {OkAdded} \cup Failures :
        Do([name |-> "add_image_from_set", imageset |-> imageset],
           add_image_from_set(config, url_base, imageset, resp))

AddScene ==
    \E scene \in AddSceneRequests, resp \in {OkAdded} \cup Failures :
        Do([name |-> "add_scene", model |-> scene],
           add_scene(config, url_base, scene, resp))

\* an absent reference is not looked up, so no answer is drawn for it
AnswersFor(iset) == IF iset = None THEN { OkFound(<<>>) } ELSE FindResponses

AddSceneFromPlace ==
    \E place \in Places :
      \E r1 \in AnswersFor(place.background_image_set),
         r2 \in AnswersFor(place.image_set),
         r3 \in AnswersFor(place.foreground_image_set) :
        Do([name |-> "add_scene_from_place", place |-> place],
           add_scene_from_place(config, url_base, place,
                                <<r1, r2, r3, OkAdded>>))

\* the send primitive, called on its own
SendAndCheck ==
    \E resp \in { OkHandleInfo, Response(201, "Created", <<"{}">>, EmptyDict) }
                    \cup Failures :
        LET sent == _send_and_check(config, url_base,
                                    [http_method |-> "GET"], resp)
        IN  Do([name |-> "_send_and_check"],
               Done(<<sent.exchange>>, sent.out))

FindImagesByWwtUrl ==
    \E wwt_url \in { URL_MAIN, <<>> }, resp \in FindResponses :
        Do([name |-> "find_images_by_wwt_url", wwt_url |-> wwt_url],
           find_images_by_wwt_url(config, wwt_url, resp))

----------------------------------------------------------------------------
(* Specifications *)

CxIdle ==
    /\ config = new_dev.value
    /\ handle = <<"wwt">>
    /\ url_base = url_base_of(handle)
    /\ wire = <<>>
    /\ decoded = <<>>
    /\ n_sent = 0
    /\ n_forced = 0
    /\ call = [name |-> "none"]
    /\ result = NoCall

CfgIdle ==
    /\ environ = EmptyEnv
    /\ cfg_result = [ctor |-> "none", out |-> NoCall]

StripIdle ==
    /\ strip_in = EmptyDict
    /\ strip_out = NotStripped

RtIdling == rt = RtIdle

InitConfig == CfgIdle /\ StripIdle /\ CxIdle /\ RtIdling
NextConfig == SetEnv \/ UnsetEnv \/ CallNewDefault \/ CallNewDev
SpecConfig == InitConfig /\ [][NextConfig]_vars

\* CxClient(config).handle_client(handle), then any operations
Init ==
    /\ config \in Configs
    /\ handle \in Handles
    /\ url_base = url_base_of(handle)
    /\ wire = <<>>
    /\ decoded = <<>>
    /\ n_sent = 0
    /\ n_forced = 0
    /\ call = [name |-> "none"]
    /\ result = NoCall
    /\ CfgIdle
    /\ StripIdle
    /\ RtIdling
Next ==
    \/ Get \/ Permissions \/ Stats \/ SceneInfo \/ GetTimeline \/ Update
    \/ AddImage \/ AddImageFromSet \/ AddScene \/ AddSceneFromPlace
    \/ FindImagesByWwtUrl \/ SendAndCheck
Spec == Init /\ [][Next]_vars

InitStrip ==
    /\ strip_in \in NestedDicts
    /\ strip_out = NotStripped
    /\ CfgIdle
    /\ CxIdle
    /\ RtIdling
NextStrip == StripStep
SpecStrip == InitStrip /\ [][NextStrip]_vars

InitRoundTrip == RtIdling /\ CfgIdle /\ StripIdle /\ CxIdle
NextRoundTrip == RtConstruct \/ RtEncode \/ RtStrip \/ RtDecode
SpecRoundTrip == InitRoundTrip /\ [][NextRoundTrip]_vars

----------------------------------------------------------------------------
(* Properties of ClientConfig, under SpecConfig *)

IsSet(key) == key \in DOMAIN environ
ConfigReturned == cfg_result.out.kind = "return"
NoIdentityUrlSet ==
    ~IsSet("NUXT_PUBLIC_KEYCLOAK_URL") /\ ~IsSet("KEYCLOAK_URL")

\* C3: every ClientConfig a constructor returns (new_default for any value
\* of NUXT_PUBLIC_API_URL, and new_dev) has an api_url that does not end in
\* "/" and an id_provider_url that ends in "/realms/constellations".
C3_ConfigUrlsNormalised ==
    ConfigReturned =>
        /\ ~endswith(cfg_result.out.value.api_url, <<"/">>)
        /\ endswith(cfg_result.out.value.id_provider_url,
                    <<"/", "realms", "/", "constellations">>)

\* the identity base that the API URL alone stands for
HeuristicBase(api_url) ==
    IF \E i \in 1..Len(api_url) : api_url[i] = "localhost"
    THEN <<"http:", "/", "/", "localhost", ":8080", "/">>
    ELSE IF \E i \in 1..Len(api_url) : api_url[i] = "wwtelescope.dev"
    THEN <<"https:", "/", "/", "wwtelescope.dev", "/", "auth", "/">>
    ELSE <<>>

\* C4: new_default, with neither identity variable set, returns the identity
\* URL http://localhost:8080/realms/constellations when the API URL contains
\* "localhost", else https://wwtelescope.dev/auth/realms/constellations when
\* it contains "wwtelescope.dev", and else raises, returning no config.
C4_DefaultIdentityDerivation ==
    ( /\ cfg_result.ctor = "new_default"
      /\ IsSet("NUXT_PUBLIC_API_URL")
      /\ NoIdentityUrlSet ) =>
        LET base == HeuristicBase(environ["NUXT_PUBLIC_API_URL"])
        IN  IF base = <<>>
            THEN cfg_result.out.kind = "raise"
            ELSE /\ ConfigReturned
                 /\ cfg_result.out.value.id_provider_url =
                        base \o <<"realms", "/", "constellations">>

C4_Witness ==
    /\ cfg_result.ctor = "new_default"
    /\ IsSet("NUXT_PUBLIC_API_URL")
    /\ NoIdentityUrlSet
    /\ environ["NUXT_PUBLIC_API_URL"] =
          <<"https:", "/", "/", "api.", "wwtelescope.dev", "/">>
    /\ ConfigReturned
    /\ cfg_result.out.value.id_provider_url =
          <<"https:", "/", "/", "wwtelescope.dev", "/", "auth", "/",
            "realms", "/", "constellations">>

WithSlash(s) == IF Len(s) > 0 /\ s[Len(s)] = "/" THEN s ELSE s \o <<"/">>

\* C5: new_default raises when NUXT_PUBLIC_API_URL is unset, whatever else
\* is set; otherwise the identity base is NUXT_PUBLIC_KEYCLOAK_URL if set,
\* else KEYCLOAK_URL if set, else the default derived from the API URL
\* (raising when there is none); and the client id is WWT_API_CLIENT_ID if
\* set, else "cli-tool".
C5_InputPrecedence ==
    cfg_result.ctor = "new_default" =>
        IF ~IsSet("NUXT_PUBLIC_API_URL")
        THEN cfg_result.out.kind = "raise"
        ELSE
          LET heuristic == HeuristicBase(environ["NUXT_PUBLIC_API_URL"])
              explicit == IsSet("NUXT_PUBLIC_KEYCLOAK_URL") \/ IsSet("KEYCLOAK_URL")
              base == IF IsSet("NUXT_PUBLIC_KEYCLOAK_URL")
                      THEN environ["NUXT_PUBLIC_KEYCLOAK_URL"]
                      ELSE IF IsSet("KEYCLOAK_URL")
                      THEN environ["KEYCLOAK_URL"]
                      ELSE heuristic
          IN  IF ~explicit /\ heuristic = <<>>
              THEN cfg_result.out.kind = "raise"
              ELSE /\ ConfigReturned
                   /\ cfg_result.out.value.id_provider_url =
                          WithSlash(base) \o <<"realms", "/", "constellations">>
                   /\ cfg_result.out.value.client_id =
                          IF IsSet("WWT_API_CLIENT_ID")
                          THEN environ["WWT_API_CLIENT_ID"]
                          ELSE <<"cli-tool">>

C5_Witness ==
    /\ cfg_result.ctor = "new_default"
    /\ DOMAIN environ = EnvVars
    /\ environ["NUXT_PUBLIC_KEYCLOAK_URL"] # environ["KEYCLOAK_URL"]
    /\ ConfigReturned
    /\ cfg_result.out.value.id_provider_url =
          WithSlash(environ["NUXT_PUBLIC_KEYCLOAK_URL"])
            \o <<"realms", "/", "constellations">>
    /\ cfg_result.out.value.client_id = environ["WWT_API_CLIENT_ID"]

----------------------------------------------------------------------------
(* Properties of _strip_nulls_in_place, under SpecStrip *)

\* no key of the mapping, at any depth of dictionary nesting, holds None
RECURSIVE NoNoneInDicts(_)
NoNoneInDicts(v) ==
    \A k \in DOMAIN v.d :
        /\ v.d[k] # None
        /\ v.d[k].t = "dict" => NoNoneInDicts(v.d[k])

\* the keys of `after` are the keys of `before` whose value is not None,
\* each with its value: a sub-dictionary stripped in the same way, any
\* other value as it was
RECURSIVE KeptNonNone(_, _)
KeptNonNone(before, after) ==
    /\ DOMAIN after.d = { k \in DOMAIN before.d : before.d[k] # None }
    /\ \A k \in DOMAIN after.d :
          IF before.d[k].t = "dict"
          THEN after.d[k].t = "dict" /\ KeptNonNone(before.d[k], after.d[k])
          ELSE after.d[k] = before.d[k]

\* C9: stripping twice equals stripping once; after one strip no key at any
\* depth of dictionary nesting holds None, and every key whose value is not
\* None is kept with its value.
C9_StripIdempotentComplete ==
    /\ strip_out.n >= 1 =>
          /\ NoNoneInDicts(strip_out.once)
          /\ KeptNonNone(strip_in, strip_out.once)
    /\ strip_out.n >= 2 => strip_out.d = strip_out.once

C9_Witness ==
    /\ strip_out.n = 2
    /\ "a" \in DOMAIN strip_in.d
    /\ strip_in.d["a"].t = "dict"
    /\ "b" \in DOMAIN strip_in.d["a"].d
    /\ strip_in.d["a"].d["b"] = None
    /\ "b" \in DOMAIN strip_in.d
    /\ strip_in.d["b"] = None
    /\ strip_out.d = Dict([k \in {"a"} |-> EmptyDict])

----------------------------------------------------------------------------
(* Properties of the session and the handle operations, under Spec *)

Called(name) == call.name = name
StatusIsFailure(resp) == resp.status_code >= 400 /\ resp.status_code <= 599

\* C1: every request handed to the token client has new_token set, so the
\* forced token acquisitions are as many as the requests issued.
C1_EveryRequestForcesToken ==
    /\ \A i \in 1..Len(wire) : wire[i].req.new_token = TRUE
    /\ n_forced = n_sent

C1_Witness ==
    /\ Called("add_scene_from_place")
    /\ Len(wire) = 3
    /\ n_sent > Len(wire)
    /\ n_forced = n_sent

\* C2: a send answered with a failure status raises an error whose message
\* holds the status, the reason and the literal body text, and returns no
\* response; a send answered with a success status returns the response as
\* it was received.
C2_FailureRaisesWithBody ==
    /\ \A i \in 1..Len(wire) :
          StatusIsFailure(wire[i].resp) =>
              /\ i = Len(wire)
              /\ result.kind = "raise"
              /\ result.exc = "HTTPError"
              /\ \E j \in 1..Len(result.msg) :
                    result.msg[j] = ToString(wire[i].resp.status_code)
              /\ \E j \in 1..Len(result.msg) :
                    result.msg[j] = wire[i].resp.reason
              /\ Len(result.msg) > Len(wire[i].resp.text)
              /\ SubSeq(result.msg,
                        Len(result.msg) - Len(wire[i].resp.text) + 1,
                        Len(result.msg)) = wire[i].resp.text
    /\ ( Called("_send_and_check") /\ ~StatusIsFailure(wire[1].resp) ) =>
          result = [kind |-> "return", value |-> wire[1].resp]

C2_Witness ==
    /\ Called("_send_and_check")
    /\ wire[1].resp.status_code = 400
    /\ wire[1].resp.text = <<"{\"error\":true,\"detail\":\"bad request\"}">>
    /\ result.kind = "raise"
    /\ result.msg[Len(result.msg)] = "{\"error\":true,\"detail\":\"bad request\"}"

PageNumValid(v) == v.t = "num" /\ v.n >= 0
PageSizeValid(v) == v.t = "num" /\ v.n >= 1 /\ v.n <= 100

\* C6: scene_info and get_timeline raise ValueError with nothing sent when
\* page_num is negative or (scene_info) page_size is outside [1,100];
\* otherwise they issue one GET carrying those page parameters.
C6_PageValidation ==
    /\ Called("scene_info") =>
          IF PageNumValid(call.page_num) /\ PageSizeValid(call.page_size)
          THEN /\ Len(wire) = 1
               /\ wire[1].req.kwargs.http_method = "GET"
               /\ wire[1].req.kwargs.params =
                     [page |-> call.page_num.n, pagesize |-> call.page_size.n]
          ELSE /\ wire = <<>>
               /\ result.kind = "raise"
               /\ result.exc = "ValueError"
    /\ Called("get_timeline") =>
          IF PageNumValid(call.page_num)
          THEN /\ Len(wire) = 1
               /\ wire[1].req.kwargs.http_method = "GET"
               /\ wire[1].req.kwargs.params = [page |-> call.page_num.n]
          ELSE /\ wire = <<>>
               /\ result.kind = "raise"
               /\ result.exc = "ValueError"

C6_Witness ==
    /\ Called("scene_info")
    /\ call.page_num = Num(0)
    /\ call.page_size = Num(100)
    /\ Len(wire) = 1
    /\ wire[1].req.kwargs.params = [page |-> 0, pagesize |-> 100]
    /\ result.kind = "return"

\* C7: add_image_from_set raises ValueError with nothing sent for an
\* imageset that is not of sky type or has a base tile level other than 0;
\* otherwise it issues the add-image POST carrying the imageset's tiling
\* fields and its URL as the legacy URL template.
C7_ImageAdapter ==
    Called("add_image_from_set") =>
        IF call.imageset.data_set_type = "Sky"
              /\ call.imageset.base_tile_level = 0
        THEN /\ Len(wire) = 1
             /\ wire[1].req.kwargs.http_method = "POST"
             /\ wire[1].req.url = config.api_url \o url_base \o <<"/", "image">>
             /\ LET sent == wire[1].req.kwargs.json.d
                    iset == call.imageset
                IN  /\ sent["storage"].d["legacy_url_template"] = iset.url
                    /\ sent["wwt"].d["base_degrees_per_tile"] = iset.base_degrees_per_tile
                    /\ sent["wwt"].d["bottoms_up"] = iset.bottoms_up
                    /\ sent["wwt"].d["center_x"] = iset.center_x
                    /\ sent["wwt"].d["center_y"] = iset.center_y
                    /\ sent["wwt"].d["file_type"] = iset.file_type
                    /\ sent["wwt"].d["offset_x"] = iset.offset_x
                    /\ sent["wwt"].d["offset_y"] = iset.offset_y
                    /\ sent["wwt"].d["projection"] = iset.projection.value
                    /\ sent["wwt"].d["quad_tree_map"] = iset.quad_tree_map
                    /\ sent["wwt"].d["rotation"] = iset.rotation_deg
                    /\ sent["wwt"].d["tile_levels"] = iset.tile_levels
                    /\ sent["wwt"].d["width_factor"] = iset.width_factor
        ELSE /\ wire = <<>>
             /\ result.kind = "raise"
             /\ result.exc = "ValueError"

C7_Witness ==
    /\ Called("add_image_from_set")
    /\ call.imageset.data_set_type = "Sky"
    /\ call.imageset.base_tile_level = 0
    /\ Len(wire) = 1
    /\ result = [kind |-> "return", value |-> Str(<<"id-new">>)]

\* the image references of the place that are not absent, in the order
\* background, main, foreground
PresentRefs(place) ==
    LET refs == <<place.background_image_set, place.image_set,
                  place.foreground_image_set>>
    IN  SelectSeq(refs, LAMBDA r : r.t = "imageset")

IsHit(exchange) ==
    /\ exchange.resp.status_code = 200
    /\ exchange.resp.json.d["results"].l # <<>>

\* C8: add_scene_from_place, when every non-absent reference resolves,
\* looks the references up in the order background, main, foreground, then
\* POSTs to /handle/{handle}/scene a request with one layer per reference in
\* that order, each of opacity 1.0, and returns the id of the scene created.
C8_SceneAdapter ==
    LET refs == PresentRefs(call.place)
        n == Len(refs)
    IN  ( /\ Called("add_scene_from_place")
          /\ Len(wire) >= n
          /\ \A i \in 1..n : IsHit(wire[i]) ) =>
            /\ Len(wire) = n + 1
            /\ \A i \in 1..n :
                  wire[i].req.kwargs.json.d["wwt_legacy_url"] = Str(refs[i].url)
            /\ wire[n + 1].req.kwargs.http_method = "POST"
            /\ wire[n + 1].req.url = config.api_url \o url_base \o <<"/", "scene">>
            /\ wire[n + 1].req.kwargs.json.d["content"].d["image_layers"] =
                  List([i \in 1..n |->
                      Dict([image_id |->
                               wire[i].resp.json.d["results"].l[1].d["_id"],
                            opacity |-> Num(1)])])
            /\ result = [kind |-> "return", value |-> Str(<<"id-new">>)]

\* a JSON null, at any depth of dictionaries and lists
RECURSIVE HasNull(_)
HasNull(v) ==
    CASE v.t = "null" -> TRUE
      [] v.t = "dict" -> \E k \in DOMAIN v.d : HasNull(v.d[k])
      [] v.t = "list" -> \E i \in 1..Len(v.l) : HasNull(v.l[i])
      [] OTHER -> FALSE

\* C10: the JSON body of every request sent holds no null anywhere: an
\* optional field that is absent in the request model is left out.
C10_NoNullTransmitted ==
    \A i \in 1..Len(wire) :
        "json" \in DOMAIN wire[i].req.kwargs =>
            ~HasNull(wire[i].req.kwargs.json)

C10_Witness ==
    /\ Called("add_scene")
    /\ call.model.f["outgoing_url"] = None
    /\ call.model.f["content"].f["image_layers"] = None
    /\ Len(wire) = 1
    /\ DOMAIN wire[1].req.kwargs.json.d = { "place", "content", "text" }
    /\ wire[1].req.kwargs.json.d["content"] = EmptyDict

IsLookup(req) ==
    req.url = config.api_url \o <<"/", "images", "/", "find-by-legacy-url">>

\* a request that changes what the server stores
IsMutating(req) ==
    /\ ~IsLookup(req)
    /\ "http_method" \in DOMAIN req.kwargs
    /\ req.kwargs.http_method \in { "PATCH", "POST" }

\* C11 (as claimed): every operation issues exactly one HTTP request and has
\* one outcome: never more than one request, and one on its success path.
C11_ExactlyOneRequest ==
    call.name # "none" =>
        /\ result.kind \in { "return", "raise" }
        /\ Len(wire) <= 1
        /\ result.kind = "return" => Len(wire) = 1

\* C11 (amended): every operation has one outcome; every operation other
\* than add_scene_from_place issues at most one request, exactly one when it
\* returns a value, and none only when it rejects its arguments with
\* ValueError; add_scene_from_place issues one lookup per image reference
\* that is present, in order, up to the first that fails, and at most one
\* further request after them; an operation issues at most one request that
\* changes what the server stores, and that request is its last.
C11_RequestsPerOperation ==
    call.name # "none" =>
        /\ result.kind \in { "return", "raise" }
        /\ result.kind = "return" => Len(wire) >= 1
        /\ ~Called("add_scene_from_place") =>
              /\ Len(wire) <= 1
              /\ Len(wire) = 0 => result.exc = "ValueError"
        /\ Called("add_scene_from_place") =>
              LET n == Len(PresentRefs(call.place))
              IN  /\ Len(wire) <= n + 1
                  /\ \A i \in 1..Len(wire) : i <= n => IsLookup(wire[i].req)
                  /\ \A i \in 1..Len(wire) :
                        (i < Len(wire) /\ i <= n) => IsHit(wire[i])
        /\ \A i \in 1..Len(wire) :
              IsMutating(wire[i].req) => i = Len(wire)

C11_Witness ==
    /\ Called("add_scene_from_place")
    /\ Len(wire) = 3
    /\ \A i \in 1..3 : IsLookup(wire[i].req)
    /\ result.kind = "raise"

IsMiss(exchange) ==
    /\ exchange.resp.status_code = 200
    /\ exchange.resp.json.d["results"].l = <<>>

\* C14: in add_scene_from_place the lookups are those of the present
\* references, in order, none repeated and none for an absent reference;
\* a lookup that finds nothing is the last request of the operation, which
\* then raises the lookup error naming that reference's URL, with no POST
\* of a scene.
C14_LookupMissStops ==
    Called("add_scene_from_place") =>
        LET refs == PresentRefs(call.place)
        IN  /\ \A i \in 1..Len(wire) :
                  IsLookup(wire[i].req) =>
                      /\ i <= Len(refs)
                      /\ wire[i].req.kwargs.json.d["wwt_legacy_url"]
                            = Str(refs[i].url)
            /\ \A i \in 1..Len(wire) :
                  ( IsLookup(wire[i].req) /\ IsMiss(wire[i]) ) =>
                      /\ i = Len(wire)
                      /\ result.kind = "raise"
                      /\ result.exc = "Exception"
                      /\ result.msg =
                            <<"unable to find Constellations record for image URL ">>
                              \o refs[i].url
                      /\ \A j \in 1..Len(wire) : IsLookup(wire[j].req)

C14_Witness ==
    /\ Called("add_scene_from_place")
    /\ Len(PresentRefs(call.place)) = 3
    /\ Len(wire) = 2
    /\ IsHit(wire[1])
    /\ IsMiss(wire[2])
    /\ result.kind = "raise"
    /\ result.exc = "Exception"

HandleUrl == config.api_url \o <<"/", "handle", "/">> \o quote(handle)

ParamsOf(req) ==
    IF "params" \in DOMAIN req.kwargs THEN DOMAIN req.kwargs.params ELSE {}

SentAs(req, method, url, params) ==
    /\ http_method_of(req.kwargs) = method
    /\ req.url = url
    /\ ParamsOf(req) = params

Answered200 == Len(wire) = 1 /\ wire[1].resp.status_code = 200

WithoutError(json) == Dict([k \in DOMAIN json.d \ {"error"} |-> json.d[k]])

DecodesResponse ==
    call.name \in { "get", "permissions", "stats", "scene_info", "update",
                    "add_image", "add_scene", "get_timeline",
                    "find_images_by_wwt_url" }

\* C15 as stated: in each of the nine operations no payload handed to the
\* decoder has the key "error", and a successful answer gives the payload
\* and not the envelope.
C15_ErrorRemovedBeforeDecoding ==
    DecodesResponse =>
        /\ \A i \in 1..Len(decoded) : "error" \notin DOMAIN decoded[i].d
        /\ Answered200 =>
              /\ result.kind = "return"
              /\ result.value # wire[1].resp.json

\* C15, amended: the handle operations that decode hand the decoder the
\* envelope without its "error" key and return the model, the result list
\* or the new id; update removes "error" and returns what is left without
\* decoding; find_images_by_wwt_url hands the decoder the whole envelope,
\* "error" included, and returns the decoded result list.
C15_PayloadReturned ==
    /\ ( DecodesResponse /\ Answered200 ) =>
          LET json == wire[1].resp.json
              payload == WithoutError(json)
          IN  /\ "error" \in DOMAIN json.d
              /\ result.kind = "return"
              /\ result.value # json
              /\ call.name \in { "get", "permissions", "stats" } =>
                    decoded = <<payload>> /\ result.value = payload
              /\ call.name \in { "scene_info", "get_timeline" } =>
                    decoded = <<payload>> /\ result.value = json.d["results"]
              /\ call.name \in { "add_image", "add_scene" } =>
                    decoded = <<payload>> /\ result.value = json.d["id"]
              /\ Called("update") =>
                    decoded = <<>> /\ result.value = payload
              /\ Called("find_images_by_wwt_url") =>
                    /\ decoded = <<json>>
                    /\ result.value.t = "list"
                    /\ Len(result.value.l) = Len(json.d["results"].l)
                    /\ \A i \in 1..Len(result.value.l) :
                          result.value.l[i].d["id"]
                            = json.d["results"].l[i].d["_id"]
    /\ \A i \in 1..Len(decoded) :
          "error" \in DOMAIN decoded[i].d =>
              call.name \in { "find_images_by_wwt_url", "add_scene_from_place" }

C15_Witness ==
    /\ Called("scene_info")
    /\ Answered200
    /\ "error" \in DOMAIN wire[1].resp.json.d
    /\ decoded = <<WithoutError(wire[1].resp.json)>>
    /\ result = Return(wire[1].resp.json.d["results"])

----------------------------------------------------------------------------
(* The round trip of the model types, under SpecRoundTrip *)

Decoded == rt.stage = "decoded"

\* C13: decoding the encoding of a model value gives the value back, also
\* when the encoding was stripped of its nulls before it was decoded.
C13_RoundTrip ==
    Decoded => rt.out = Return(rt.made.value)

\* the round trip as encoded, with no strip between to_dict and load
RoundTripAsEncoded ==
    ( Decoded /\ ~rt.stripped ) => rt.out = Return(rt.made.value)

\* the strip removes a key the loader requires: an Optional field without a
\* default that is None, in x or in a dataclass x holds
RECURSIVE LosesRequiredKey(_)
LosesRequiredKey(x) ==
    \E k \in DOMAIN x.f :
        \/ k \in OptionalOf(x.cls) \ DefaultedOf(x.cls) /\ x.f[k] = None
        \/ x.f[k].t = "obj" /\ LosesRequiredKey(x.f[k])

\* a stripped encoding is decoded back unless the strip removed a required
\* key, and then the load raises
RoundTripStripped ==
    ( Decoded /\ rt.stripped ) =>
        IF LosesRequiredKey(rt.made.value)
        THEN rt.out.kind = "raise" /\ rt.out.exc = "ValidationError"
        ELSE rt.out = Return(rt.made.value)

====
